---- MODULE Spec2Model ----
(***************************************************************************)
(* Model of src/server.py: the websocket audio/transcription bridge.       *)
(*                                                                         *)
(*   AudioStream           the file-like object the engine reads from      *)
(*   TranscriptionSession  the per-connection recorder                     *)
(*   SpeechmaticsHandler   the worker that runs the engine's blocking call *)
(*   message_queue         the process-wide queue of outbound messages     *)
(*   websocket_proxy       the per-connection handler and its finally      *)
(*                                                                         *)
(* Byte strings are records [data, zeros]: data is the sequence of bytes   *)
(* that came from the client, zeros the number of zero bytes read() made   *)
(* up as silence.  Client bytes are numbered 1, 2, 3, ... per session in   *)
(* the order the client sent them, so that a lost, repeated or reordered   *)
(* byte shows.                                                             *)
(***************************************************************************)
EXTENDS Integers, Sequences, FiniteSets, TLC

\* ------------------------------------------------------------ bounds
\* The two connections of the model (websocket_proxy runs once per connection).
Sessions == {"A", "B"}
\* The AudioStream the unit-level specification StreamSpec drives.
Unit == "A"

\* Bytes pushed into the unit-level AudioStream, at most.
MaxBytes == 3
\* Longest chunk pushed or received.
MaxChunkLen == 3
\* Bytes the client of a connection sends, at most (Spec).
MaxAudio == 2
\* Engine events delivered to a connection's worker, at most (Spec).
MaxEvents == 2
\* Engine events delivered, both connections together, at most (PairSpec).
PairEvents == 1
\* Largest positive size the unit-level reader asks for.
MaxReadSize == 2
\* close() calls the unit-level driver makes, at most.
MaxCloses == 2
\* Bytes the client sends, one per chunk, at most (AckSpec).
AckAudio == 10
\* Engine events delivered, at most (AckSpec).
AckEvents == 1
\* The clock: datetime.now() is read in ticks 0..MaxTime ...
MaxTime == 2
\* ... of which TicksPerSecond make one second.
TicksPerSecond == 2

\* ------------------------------------------------------------ program constants
\* AudioSettings(chunk_size=1024): the size of every read the engine makes.
chunk_size == 1024
\* AudioStream.read: int(16000 * 0.1) samples of silence ...
SILENCE_RATE == 16000
\* ... of two bytes each (b'\x00\x00').
SILENCE_WIDTH == 2
\* websocket_proxy: an acknowledgment every 10 chunks.
ACK_EVERY == 10

\* ------------------------------------------------------------ sequences
Bytes(data, zeros) == [data |-> data, zeros |-> zeros]
EmptyBytes == Bytes(<<>>, 0)

IsPrefix(p, q) == Len(p) <= Len(q) /\ SubSeq(q, 1, Len(p)) = p

\* Python's s[:n] and s[n:] for n >= 0.
Take(s, n) == SubSeq(s, 1, IF n < Len(s) THEN n ELSE Len(s))
Drop(s, n) == SubSeq(s, n + 1, Len(s))

\* ------------------------------------------------------------ AudioStream
\* An item of audio_queue: a chunk, or the None that close() puts.
Item(data) == [pill |-> FALSE, data |-> data]
PoisonPill == [pill |-> TRUE, data |-> <<>>]

AudioStream_init ==
  [audio_queue |-> <<>>, current_buffer |-> <<>>, closed |-> FALSE]

\* What a read handed back: the bytes, the branch of read() that produced them
\* (src), and whether close() had already set the closed flag at that moment.
Ret(src, bytes, st) == [src |-> src, bytes |-> bytes, afterClose |-> st.closed]
NoRet == [src |-> "none", bytes |-> EmptyBytes, afterClose |-> FALSE]

\* b'\x00\x00' * int(16000 * 0.1)
silence_short == Bytes(<<>>, (SILENCE_RATE * 1) \div 10)
silence == Bytes(<<>>, SILENCE_WIDTH * ((SILENCE_RATE * 1) \div 10))

\* read(), lines 57-69: the closed check and the buffered remainder.  wait is
\* TRUE when the read goes on to audio_queue.get(timeout=2.0).
read_enter_keep(st, size) ==
  IF st.closed
    THEN [st |-> st, wait |-> FALSE, ret |-> Ret("closed", EmptyBytes, st)]
  ELSE IF st.current_buffer # <<>>
    THEN IF size = -1 \/ Len(st.current_buffer) <= size
           THEN [st |-> st,
                 wait |-> FALSE,
                 ret |-> Ret("buffer", Bytes(st.current_buffer, 0), st)]
           ELSE [st |-> [st EXCEPT !.current_buffer = Drop(@, size)],
                 wait |-> FALSE,
                 ret |-> Ret("buffer", Bytes(Take(st.current_buffer, size), 0), st)]
  ELSE [st |-> st, wait |-> TRUE, ret |-> NoRet]
read_enter_alive(st, size) ==
  IF st.closed
    THEN [st |-> st, wait |-> FALSE, ret |-> Ret("closed", silence, st)]
  ELSE IF st.current_buffer # <<>>
    THEN IF size = -1 \/ Len(st.current_buffer) <= size
           THEN [st |-> [st EXCEPT !.current_buffer = <<>>],
                 wait |-> FALSE,
                 ret |-> Ret("buffer", Bytes(st.current_buffer, 0), st)]
           ELSE [st |-> [st EXCEPT !.current_buffer = Drop(@, size)],
                 wait |-> FALSE,
                 ret |-> Ret("buffer", Bytes(Take(st.current_buffer, size), 0), st)]
  ELSE [st |-> st, wait |-> TRUE, ret |-> NoRet]
read_enter(st, size) ==
  IF st.closed
    THEN [st |-> st, wait |-> FALSE, ret |-> Ret("closed", EmptyBytes, st)]
  ELSE IF st.current_buffer # <<>>
    THEN IF size = -1 \/ Len(st.current_buffer) <= size
           THEN [st |-> [st EXCEPT !.current_buffer = <<>>],
                 wait |-> FALSE,
                 ret |-> Ret("buffer", Bytes(st.current_buffer, 0), st)]
           ELSE [st |-> [st EXCEPT !.current_buffer = Drop(@, size)],
                 wait |-> FALSE,
                 ret |-> Ret("buffer", Bytes(Take(st.current_buffer, size), 0), st)]
  ELSE [st |-> st, wait |-> TRUE, ret |-> NoRet]

\* read(), lines 73-82: audio_queue.get returned the head of the queue.
read_item(st, size) ==
  LET new_data == Head(st.audio_queue)
      rest == [st EXCEPT !.audio_queue = Tail(@)]
  IN IF new_data.pill
       THEN LET c == [rest EXCEPT !.closed = TRUE]
            IN [st |-> c, ret |-> Ret("sentinel", EmptyBytes, c)]
     ELSE IF size = -1 \/ Len(new_data.data) <= size
       THEN [st |-> rest, ret |-> Ret("chunk", Bytes(new_data.data, 0), rest)]
     ELSE [st |-> [rest EXCEPT !.current_buffer = Drop(new_data.data, size)],
           ret |-> Ret("chunk", Bytes(Take(new_data.data, size), 0), rest)]

\* read(), lines 84-86: audio_queue.get raised queue.Empty after its timeout.
read_empty(st) == [st |-> st, ret |-> Ret("timeout", silence, st)]

\* add_audio_data(), lines 91-94.
AudioStream_add_audio_data(st, data) ==
  IF ~st.closed THEN [st EXCEPT !.audio_queue = Append(@, Item(data))] ELSE st

\* close(), line 98 and line 99: two steps of the closing thread.
close_flag(st) == [st EXCEPT !.closed = TRUE]
close_put(st) == [st EXCEPT !.audio_queue = Append(@, PoisonPill)]


\* ------------------------------------------------------------ state
VARIABLES
  stream,        \* s -> the AudioStream of the session's SpeechmaticsHandler
  rd,            \* s -> the read() in progress: [pc, size]
  ret,           \* s -> what the last read() returned
  eos,           \* s -> the reader was handed an empty result
  accepted,      \* s -> history: the bytes add_audio_data put on audio_queue
  got,           \* s -> history: the client bytes read() has returned
  session,       \* s -> the TranscriptionSession: [session_id, start_time,
                 \*      audio_chunks, transcripts]
  saved,         \* s -> what save_session has written
  saveCalls,     \* s -> history: how often save_session was invoked
  message_queue, \* the global queue of outbound messages
  pubCount,      \* s -> history: messages the session's worker has published
  events,        \* engine events delivered so far, all sessions
  worker,        \* s -> the thread running start_transcription
  hpc,           \* s -> where websocket_proxy stands
  chunk_count,   \* s -> websocket_proxy's chunk_count
  session_id,    \* s -> websocket_proxy's session_id
  conn,          \* s -> the client's end of the websocket
  clientRecv,    \* s -> history: the text frames the client was sent
  mtask,         \* s -> the message_handler task
  loopBusy,      \* the handler running a synchronous stretch of the event loop
  drv            \* the unit-level driver of AudioStream: [pc, closes]

streamVars == <<stream, rd, ret, eos, accepted, got>>
recVars == <<session, saved, saveCalls>>
relayVars == <<message_queue, pubCount, events>>
connVars == <<hpc, chunk_count, session_id, conn, clientRecv, mtask, loopBusy>>
vars == <<streamVars, recVars, relayVars, connVars, worker, drv>>

NoLoop == "none"
SP == " "
\* The k-th spoken text of a session: each one different, so that the order
\* of the entries shows.
Word(k) == <<"a", "b", "c", "d", "e", "f", "g", "h">>[k]
\* The transcript texts the engine delivers: blank ones and spoken ones.
Texts(s) == {<<SP>>, <<Word(Len(session[s].transcripts) + 1), SP>>}

RECURSIVE Flat(_)
\* b''.join(chunks)
Flat(chunks) == IF chunks = <<>> THEN <<>> ELSE Head(chunks) \o Flat(Tail(chunks))

RECURSIVE FlatItems(_)
\* The chunk bytes waiting in an audio_queue, in order.
FlatItems(q) == IF q = <<>> THEN <<>> ELSE Head(q).data \o FlatItems(Tail(q))

RECURSIVE strip(_)
\* str.strip()
strip(text) ==
  IF text = <<>> THEN <<>>
  ELSE IF Head(text) = SP THEN strip(Tail(text))
  ELSE IF text[Len(text)] = SP THEN strip(SubSeq(text, 1, Len(text) - 1))
  ELSE text

RECURSIVE SumOver(_, _)
SumOver(f, S) ==
  IF S = {} THEN 0
  ELSE LET x == CHOOSE y \in S : TRUE IN f[x] + SumOver(f, S \ {x})

\* Bytes the clients have sent so far, all sessions together.
BytesSent == SumOver([s \in Sessions |-> Len(Flat(session[s].audio_chunks))], Sessions)

\* The next chunk of n bytes from the client of session s.
NextChunk(s, n) ==
  [i \in 1..n |-> Len(Flat(session[s].audio_chunks)) + i]

\* A text frame: src is the session whose code produced it, n its number among
\* the messages that session's worker published (0 for a frame websocket_proxy
\* sends itself; the chunk count for an acknowledgment).
Frame(src, n, kind, text) == [src |-> src, n |-> n, kind |-> kind, text |-> text]

\* strftime('%Y%m%d_%H%M%S') of the clock value now: the second it lies in.
strftime(now) ==
  <<"20250101_000000", "20250101_000001", "20250101_000002",
    "20250101_000003">>[(now \div TicksPerSecond) + 1]

\* client_ws.query_params.get("session_id"): None, or the value of the
\* parameter, which may be empty.
NoParam == [given |-> FALSE, value |-> ""]
Param(value) == [given |-> TRUE, value |-> value]
QueryParams == {NoParam, Param(""), Param("x")}

\* Lines 279-285: the session id websocket_proxy settles on.
session_id_generated(q, now) == strftime(now)
session_id_of(q, now) ==
  IF ~q.given \/ q.value = "" THEN strftime(now) ELSE q.value

\* TranscriptionSession.__init__, lines 105-112, with the clock at now.
TranscriptionSession_init(id, now) ==
  [session_id |-> id, start_time |-> now, audio_chunks |-> <<>>, transcripts |-> <<>>]
NoSession == TranscriptionSession_init("", 0)

\* save_session, lines 131-132: the name its three files start with.
base_filename(sess) == strftime(sess.start_time)
NoName == ""
NoFiles == [name |-> NoName, wav |-> <<>>, json |-> <<>>, txt |-> <<>>, done |-> FALSE]

\* The last value datetime.now() returned: time does not run backwards.
LastNow ==
  LET T == {session[s].start_time : s \in {c \in Sessions : hpc[c] # "idle"}} \cup {0}
  IN CHOOSE m \in T : \A x \in T : x <= m

Init ==
  /\ stream = [s \in Sessions |-> AudioStream_init]
  /\ rd = [s \in Sessions |-> [pc |-> "idle", size |-> 0]]
  /\ ret = [s \in Sessions |-> NoRet]
  /\ eos = [s \in Sessions |-> FALSE]
  /\ accepted = [s \in Sessions |-> <<>>]
  /\ got = [s \in Sessions |-> <<>>]
  /\ session = [s \in Sessions |-> NoSession]
  /\ saved = [s \in Sessions |-> NoFiles]
  /\ saveCalls = [s \in Sessions |-> 0]
  /\ message_queue = <<>>
  /\ pubCount = [s \in Sessions |-> 0]
  /\ events = 0
  /\ worker = [s \in Sessions |-> "none"]
  /\ hpc = [s \in Sessions |-> "idle"]
  /\ chunk_count = [s \in Sessions |-> 0]
  /\ session_id = [s \in Sessions |-> ""]
  /\ conn = [s \in Sessions |-> "none"]
  /\ clientRecv = [s \in Sessions |-> <<>>]
  /\ mtask = [s \in Sessions |-> "none"]
  /\ loopBusy = NoLoop
  /\ drv = [pc |-> "ready", closes |-> 0]

\* ------------------------------------------------------------ read(), step by step
\* The reader thread calls read(size): lines 57-69, or on to the wait of line 73.
Read_call(s, size) ==
  /\ rd[s].pc = "idle"
  /\ LET r == read_enter(stream[s], size)
     IN /\ stream' = [stream EXCEPT ![s] = r.st]
        /\ rd' = [rd EXCEPT ![s] = [pc |-> IF r.wait THEN "get" ELSE "idle",
                                    size |-> size]]
        /\ ret' = [ret EXCEPT ![s] = r.ret]
        /\ got' = [got EXCEPT ![s] = @ \o r.ret.bytes.data]
        /\ eos' = [eos EXCEPT ![s] = @ \/ (~r.wait /\ r.ret.bytes = EmptyBytes)]
  /\ UNCHANGED <<accepted, recVars, relayVars, connVars, worker, drv>>

\* audio_queue.get(timeout=2.0) returns an item: lines 73-82.
Read_get(s) ==
  /\ rd[s].pc = "get"
  /\ stream[s].audio_queue # <<>>
  /\ LET r == read_item(stream[s], rd[s].size)
     IN /\ stream' = [stream EXCEPT ![s] = r.st]
        /\ ret' = [ret EXCEPT ![s] = r.ret]
        /\ got' = [got EXCEPT ![s] = @ \o r.ret.bytes.data]
        /\ eos' = [eos EXCEPT ![s] = @ \/ r.ret.bytes = EmptyBytes]
  /\ rd' = [rd EXCEPT ![s].pc = "idle"]
  /\ UNCHANGED <<accepted, recVars, relayVars, connVars, worker, drv>>

\* audio_queue.get(timeout=2.0) raises queue.Empty: lines 84-86.  Queue.get
\* raises it only on finding the queue empty once the time is up.
Read_timeout(s) ==
  /\ rd[s].pc = "get"
  /\ stream[s].audio_queue = <<>>
  /\ LET r == read_empty(stream[s])
     IN /\ stream' = [stream EXCEPT ![s] = r.st]
        /\ ret' = [ret EXCEPT ![s] = r.ret]
        /\ got' = [got EXCEPT ![s] = @ \o r.ret.bytes.data]
        /\ eos' = [eos EXCEPT ![s] = @ \/ r.ret.bytes = EmptyBytes]
  /\ rd' = [rd EXCEPT ![s].pc = "idle"]
  /\ UNCHANGED <<accepted, recVars, relayVars, connVars, worker, drv>>

\* ------------------------------------------------------------ recorder and handler
\* TranscriptionSession.add_audio_chunk, lines 114-116.
add_audio_chunk_front(ts, chunk) == [ts EXCEPT !.audio_chunks = <<chunk>> \o @]
add_audio_chunk(ts, chunk) == [ts EXCEPT !.audio_chunks = Append(@, chunk)]

\* TranscriptionSession.add_transcript, lines 118-124 (the wall-clock
\* timestamp of an entry is not modelled).
add_transcript_final(ts, text, is_partial) ==
  [ts EXCEPT !.transcripts = Append(@, [text |-> text, is_partial |-> FALSE])]
add_transcript(ts, text, is_partial) ==
  [ts EXCEPT !.transcripts = Append(@, [text |-> text, is_partial |-> is_partial])]

\* SpeechmaticsHandler.add_audio_data, lines 238-241: into the stream and
\* into the recorder.
Handler_add_audio_data(s, data) ==
  /\ stream' = [stream EXCEPT ![s] = AudioStream_add_audio_data(@, data)]
  /\ accepted' = [accepted EXCEPT ![s] = IF stream[s].closed THEN @ ELSE @ \o data]
  /\ session' = [session EXCEPT ![s] = add_audio_chunk(@, data)]

\* ------------------------------------------------------------ the unit-level driver
\* One thread pushes chunks and closes; another reads with sizes of its choice.
UnitPush(n) ==
  /\ drv.pc = "ready"
  /\ BytesSent + n <= MaxBytes
  /\ Handler_add_audio_data(Unit, NextChunk(Unit, n))
  /\ UNCHANGED <<rd, ret, eos, got, saved, saveCalls, relayVars, connVars, worker, drv>>

UnitCloseFlag ==
  /\ drv.pc = "ready"
  /\ drv.closes < MaxCloses
  /\ stream' = [stream EXCEPT ![Unit] = close_flag(@)]
  /\ drv' = [pc |-> "closing", closes |-> drv.closes + 1]
  /\ UNCHANGED <<rd, ret, eos, accepted, got, recVars, relayVars, connVars, worker>>

UnitClosePut ==
  /\ drv.pc = "closing"
  /\ stream' = [stream EXCEPT ![Unit] = close_put(@)]
  /\ drv' = [drv EXCEPT !.pc = "ready"]
  /\ UNCHANGED <<rd, ret, eos, accepted, got, recVars, relayVars, connVars, worker>>

ReadSizes == {-1} \cup (1..MaxReadSize)

UnitRead(size) == Read_call(Unit, size)

StreamNext ==
  \/ \E n \in 1..MaxChunkLen : UnitPush(n)
  \/ UnitCloseFlag
  \/ UnitClosePut
  \/ \E size \in ReadSizes : UnitRead(size)
  \/ Read_get(Unit)
  \/ Read_timeout(Unit)

StreamSpec == Init /\ [][StreamNext]_vars


\* ------------------------------------------------------------ the worker thread
\* message_sender_callback, lines 268-270: onto the global queue.
message_sender_callback(s, kind, text) ==
  /\ message_queue' = Append(message_queue, Frame(s, pubCount[s] + 1, kind, text))
  /\ pubCount' = [pubCount EXCEPT ![s] = @ + 1]

\* The engine's thread is inside run_synchronously and not inside a read().
EngineRunning(s) == worker[s] = "running" /\ rd[s].pc = "idle"

\* The engine pulls audio: audio_stream.read(chunk_size), until a read hands
\* it an empty result.
EngineRead(s) ==
  /\ EngineRunning(s)
  /\ ~eos[s]
  /\ Read_call(s, chunk_size)

\* _handle_transcript, lines 225-236, called for AddTranscript
\* (is_partial = FALSE) and AddPartialTranscript (is_partial = TRUE).
EngineTranscript(s, text, is_partial, limit) ==
  /\ EngineRunning(s)
  /\ events < limit
  /\ events' = events + 1
  /\ IF strip(text) # <<>>
       THEN /\ session' = [session EXCEPT ![s] = add_transcript(@, text, is_partial)]
            /\ message_sender_callback(s, IF is_partial THEN "partial" ELSE "final", text)
       ELSE UNCHANGED <<session, message_queue, pubCount>>
  /\ UNCHANGED <<streamVars, saved, saveCalls, connVars, worker, drv>>

\* The Error handler, lines 214-217.
EngineErrorEvent(s, limit) ==
  /\ EngineRunning(s)
  /\ events < limit
  /\ events' = events + 1
  /\ message_sender_callback(s, "error", <<>>)
  /\ UNCHANGED <<streamVars, recVars, connVars, worker, drv>>

\* The RecognitionStarted handler, lines 220-223.
EngineStarted(s, limit) ==
  /\ EngineRunning(s)
  /\ events < limit
  /\ events' = events + 1
  /\ message_sender_callback(s, "started", <<>>)
  /\ UNCHANGED <<streamVars, recVars, connVars, worker, drv>>

\* start_transcription, lines 256-258: building the client or the blocking
\* call raised (at once, or later between two reads); the error is published
\* and the thread ends.
EngineRaise(s) ==
  /\ EngineRunning(s)
  /\ worker' = [worker EXCEPT ![s] = "failed"]
  /\ message_sender_callback(s, "fatal", <<>>)
  /\ UNCHANGED <<streamVars, recVars, events, connVars, drv>>

\* run_synchronously returns: the engine was handed the end of the stream.
EngineReturn(s) ==
  /\ EngineRunning(s)
  /\ eos[s]
  /\ worker' = [worker EXCEPT ![s] = "done"]
  /\ UNCHANGED <<streamVars, recVars, relayVars, connVars, drv>>

WorkerExited(s) == worker[s] \in {"done", "failed"}

\* ------------------------------------------------------------ websocket_proxy
LoopFree == loopBusy = NoLoop

\* Lines 275-288: the connection is accepted with query parameter q, the
\* session id settled with the clock at t1 and the session created with the
\* clock at t2.
Connect(s, q, t1, t2) ==
  /\ hpc[s] = "idle"
  /\ LoopFree
  /\ LastNow <= t1 /\ t1 <= t2
  /\ session_id' = [session_id EXCEPT ![s] = session_id_of(q, t1)]
  /\ session' = [session EXCEPT ![s] = TranscriptionSession_init(session_id'[s], t2)]
  /\ hpc' = [hpc EXCEPT ![s] = "greet"]
  /\ conn' = [conn EXCEPT ![s] = "open"]
  /\ UNCHANGED <<streamVars, saved, saveCalls, relayVars, chunk_count, clientRecv, mtask,
                 loopBusy, worker, drv>>

\* The client closes its end of the websocket.
ClientGone(s) ==
  /\ conn[s] = "open"
  /\ hpc[s] \in {"greet", "recv", "notify"}
  /\ conn' = [conn EXCEPT ![s] = "gone"]
  /\ UNCHANGED <<streamVars, recVars, relayVars, hpc, chunk_count, session_id, clientRecv, mtask,
                 loopBusy, worker, drv>>

\* Lines 291-319: the two greetings are sent, the handler and its stream are
\* made, start_transcription is submitted (its thread runs lines 246-250 and
\* is then inside the engine's blocking call) and message_handler is started.
Greet(s) ==
  /\ hpc[s] = "greet"
  /\ LoopFree
  /\ conn[s] = "open"
  /\ clientRecv' = [clientRecv EXCEPT ![s] =
       @ \o <<Frame(s, 0, "connected", <<>>), Frame(s, 0, "session_id", <<session_id[s]>>)>>]
  /\ worker' = [worker EXCEPT ![s] = "running"]
  /\ mtask' = [mtask EXCEPT ![s] = "run"]
  /\ hpc' = [hpc EXCEPT ![s] = "recv"]
  /\ UNCHANGED <<streamVars, recVars, relayVars, chunk_count, session_id, conn, loopBusy, drv>>

\* Lines 291-292 with the client gone: send_text raises outside the try, and
\* websocket_proxy is left through the exception.
GreetFail(s) ==
  /\ hpc[s] = "greet"
  /\ LoopFree
  /\ conn[s] = "gone"
  /\ hpc' = [hpc EXCEPT ![s] = "raised"]
  /\ UNCHANGED <<streamVars, recVars, relayVars, chunk_count, session_id, conn, clientRecv, mtask,
                 loopBusy, worker, drv>>

\* Lines 325-333: one round of the receive loop.
Receive(s, n, limit) ==
  /\ hpc[s] = "recv"
  /\ LoopFree
  /\ conn[s] = "open"
  /\ BytesSent + n <= limit
  /\ chunk_count' = [chunk_count EXCEPT ![s] = @ + 1]
  /\ Handler_add_audio_data(s, NextChunk(s, n))
  /\ clientRecv' = [clientRecv EXCEPT ![s] =
       IF (chunk_count[s] + 1) % ACK_EVERY = 0
         THEN Append(@, Frame(s, chunk_count[s] + 1, "ack", <<>>))
         ELSE @]
  /\ UNCHANGED <<rd, ret, eos, got, saved, saveCalls, relayVars, hpc, session_id, conn,
                 mtask, loopBusy, worker, drv>>

\* Into the finally block, lines 339-341.  From there to the await of line 362
\* the handler does not yield: no other task of the event loop runs.
EnterFinally(s) ==
  /\ hpc' = [hpc EXCEPT ![s] = "stop"]
  /\ loopBusy' = s
  /\ UNCHANGED <<streamVars, recVars, relayVars, chunk_count, session_id, conn, clientRecv, mtask,
                 worker, drv>>

\* Lines 335-336: receive_bytes raises WebSocketDisconnect.
Disconnect(s) ==
  /\ hpc[s] = "recv"
  /\ LoopFree
  /\ conn[s] = "gone"
  /\ EnterFinally(s)

\* Lines 337-338: receive_bytes raises something else (a text frame, a
\* transport error) with the client still there.
ReceiveError(s) ==
  /\ hpc[s] = "recv"
  /\ LoopFree
  /\ conn[s] = "open"
  /\ EnterFinally(s)

\* Line 342: stop_transcription, close() line 98.
FinallyCloseFlag(s) ==
  /\ hpc[s] = "stop"
  /\ stream' = [stream EXCEPT ![s] = close_flag(@)]
  /\ hpc' = [hpc EXCEPT ![s] = "put"]
  /\ UNCHANGED <<rd, ret, eos, accepted, got, recVars, relayVars, chunk_count, session_id, conn,
                 clientRecv, mtask, loopBusy, worker, drv>>

\* close() line 99, and message_handler left running.
FinallyClosePutOnly(s) ==
  /\ hpc[s] = "put"
  /\ stream' = [stream EXCEPT ![s] = close_put(@)]
  /\ hpc' = [hpc EXCEPT ![s] = "wait"]
  /\ UNCHANGED <<rd, ret, eos, accepted, got, recVars, relayVars, chunk_count, session_id,
                 conn, clientRecv, mtask, loopBusy, worker, drv>>

\* close() line 99, then message_task.cancel(), line 345.
FinallyClosePut(s) ==
  /\ hpc[s] = "put"
  /\ stream' = [stream EXCEPT ![s] = close_put(@)]
  /\ mtask' = [mtask EXCEPT ![s] = IF @ = "run" THEN "cancelled" ELSE @]
  /\ hpc' = [hpc EXCEPT ![s] = "wait"]
  /\ UNCHANGED <<rd, ret, eos, accepted, got, recVars, relayVars, chunk_count, session_id, conn,
                 clientRecv, loopBusy, worker, drv>>

\* Lines 348-353: transcription_future.result(timeout=2.0) returns, the
\* worker having ended.
FinallyWaitDone(s) ==
  /\ hpc[s] = "wait"
  /\ WorkerExited(s)
  /\ hpc' = [hpc EXCEPT ![s] = "save"]
  /\ UNCHANGED <<streamVars, recVars, relayVars, chunk_count, session_id, conn, clientRecv, mtask,
                 loopBusy, worker, drv>>

\* result() with no timeout would wait for the worker, however long.
FinallyWaitUnbounded(s) ==
  /\ hpc[s] = "wait"
  /\ FALSE
  /\ UNCHANGED vars
\* Lines 348-353: the two seconds pass with the worker still running; the
\* TimeoutError is swallowed.
FinallyWaitTimeout(s) ==
  /\ hpc[s] = "wait"
  /\ ~WorkerExited(s)
  /\ hpc' = [hpc EXCEPT ![s] = "save"]
  /\ UNCHANGED <<streamVars, recVars, relayVars, chunk_count, session_id, conn, clientRecv, mtask,
                 loopBusy, worker, drv>>

\* The lines of the plain-text transcript, lines 160-162.
RECURSIVE TextLines_all(_)
TextLines_all(entries) ==
  IF entries = <<>> THEN <<>>
  ELSE <<Head(entries).text>> \o TextLines_all(Tail(entries))
RECURSIVE TextLines(_)
TextLines(entries) ==
  IF entries = <<>> THEN <<>>
  ELSE IF ~Head(entries).is_partial
    THEN <<Head(entries).text>> \o TextLines(Tail(entries))
  ELSE TextLines(Tail(entries))

\* save_session, lines 128-155: the WAV file and the JSON transcript.
SaveBegin(s) ==
  /\ hpc[s] = "save"
  /\ saveCalls' = [saveCalls EXCEPT ![s] = @ + 1]
  /\ saved' = [saved EXCEPT ![s] = [name |-> base_filename(session[s]),
                                    wav |-> Flat(session[s].audio_chunks),
                                    json |-> session[s].transcripts,
                                    txt |-> <<>>,
                                    done |-> FALSE]]
  /\ hpc' = [hpc EXCEPT ![s] = "saving"]
  /\ UNCHANGED <<streamVars, session, relayVars, chunk_count, session_id, conn, clientRecv, mtask,
                 loopBusy, worker, drv>>

\* save_session, lines 158-165: the plain-text transcript, and the return.
SaveEnd(s) ==
  /\ hpc[s] = "saving"
  /\ saved' = [saved EXCEPT ![s].txt = TextLines(session[s].transcripts),
                            ![s].done = TRUE]
  /\ hpc' = [hpc EXCEPT ![s] = "notify"]
  /\ UNCHANGED <<streamVars, session, saveCalls, relayVars, chunk_count, session_id, conn,
                 clientRecv, mtask, loopBusy, worker, drv>>

\* save_session raises (the disk): the exception leaves the finally block.
SaveFail(s) ==
  /\ hpc[s] = "saving"
  /\ hpc' = [hpc EXCEPT ![s] = "raised"]
  /\ loopBusy' = NoLoop
  /\ UNCHANGED <<streamVars, recVars, relayVars, chunk_count, session_id, conn, clientRecv, mtask,
                 worker, drv>>

\* Lines 361-364: SESSION_ENDED is sent; a failure to send is swallowed.
Notify(s) ==
  /\ hpc[s] = "notify"
  /\ clientRecv' = [clientRecv EXCEPT ![s] =
       IF conn[s] = "open" THEN Append(@, Frame(s, 0, "ended", <<session_id[s]>>)) ELSE @]
  /\ hpc' = [hpc EXCEPT ![s] = "end"]
  /\ loopBusy' = NoLoop
  /\ UNCHANGED <<streamVars, recVars, relayVars, chunk_count, session_id, conn, mtask, worker, drv>>

\* message_handler, lines 302-316: one round that finds a message.  It is sent
\* to this connection's client; a send that raises ends the task.
MsgPoll(s) ==
  /\ mtask[s] = "run"
  /\ LoopFree
  /\ message_queue # <<>>
  /\ message_queue' = Tail(message_queue)
  /\ IF conn[s] = "open"
       THEN /\ clientRecv' = [clientRecv EXCEPT ![s] = Append(@, Head(message_queue))]
            /\ UNCHANGED mtask
       ELSE /\ mtask' = [mtask EXCEPT ![s] = "dead"]
            /\ UNCHANGED clientRecv
  /\ UNCHANGED <<streamVars, recVars, pubCount, events, hpc, chunk_count, session_id, conn,
                 loopBusy, worker, drv>>

\* ------------------------------------------------------------ specifications
\* What the event loop runs for connection s once the client has connected.
HandlerStep(s) ==
  \/ Greet(s)
  \/ GreetFail(s)
  \/ Disconnect(s)
  \/ FinallyCloseFlag(s)
  \/ FinallyClosePut(s)
  \/ FinallyWaitDone(s)
  \/ FinallyWaitTimeout(s)
  \/ SaveBegin(s)
  \/ SaveEnd(s)
  \/ Notify(s)
  \/ MsgPoll(s)

\* What the worker thread of connection s does by itself.
WorkerStep(s) ==
  \/ EngineRead(s)
  \/ Read_get(s)
  \/ Read_timeout(s)
  \/ EngineReturn(s)

\* Spec: one connection, everything the client, the engine and the disk can do.
Solo == {Unit}

Next ==
  \/ \E s \in Solo : Connect(s, NoParam, 0, 0)
  \/ \E s \in Solo : ClientGone(s)
  \/ \E s \in Solo : Greet(s)
  \/ \E s \in Solo : GreetFail(s)
  \/ \E s \in Solo : \E n \in 1..MaxChunkLen : Receive(s, n, MaxAudio)
  \/ \E s \in Solo : Disconnect(s)
  \/ \E s \in Solo : ReceiveError(s)
  \/ \E s \in Solo : FinallyCloseFlag(s)
  \/ \E s \in Solo : FinallyClosePut(s)
  \/ \E s \in Solo : FinallyWaitDone(s)
  \/ \E s \in Solo : FinallyWaitTimeout(s)
  \/ \E s \in Solo : SaveBegin(s)
  \/ \E s \in Solo : SaveEnd(s)
  \/ \E s \in Solo : SaveFail(s)
  \/ \E s \in Solo : Notify(s)
  \/ \E s \in Solo : MsgPoll(s)
  \/ \E s \in Solo : EngineRead(s)
  \/ \E s \in Solo : Read_get(s)
  \/ \E s \in Solo : Read_timeout(s)
  \/ \E s \in Solo : \E text \in Texts(s) : \E p \in BOOLEAN :
       EngineTranscript(s, text, p, MaxEvents)
  \/ \E s \in Solo : EngineErrorEvent(s, MaxEvents)
  \/ \E s \in Solo : EngineStarted(s, MaxEvents)
  \/ \E s \in Solo : EngineRaise(s)
  \/ \E s \in Solo : EngineReturn(s)

Spec == Init /\ [][Next]_vars

\* The event loop and the worker thread are scheduled fairly.  What the
\* client does, what the engine delivers and what fails are not forced.
FairSpec ==
  /\ Spec
  /\ \A s \in Solo : WF_vars(HandlerStep(s))
  /\ \A s \in Solo : WF_vars(WorkerStep(s))

\* DrainSpec: the event loop is scheduled fairly, the worker thread is not:
\* it may stay inside the engine's call for ever.
DrainSpec ==
  /\ Spec
  /\ \A s \in Solo : WF_vars(HandlerStep(s))

\* PairSpec: two connections side by side, or one after the other, whose
\* clients send no audio and whose engines deliver final transcripts.
PairNext ==
  \/ \E s \in Sessions : Connect(s, NoParam, 0, 0)
  \/ \E s \in Sessions : ClientGone(s)
  \/ \E s \in Sessions : Greet(s)
  \/ \E s \in Sessions : GreetFail(s)
  \/ \E s \in Sessions : Disconnect(s)
  \/ \E s \in Sessions : ReceiveError(s)
  \/ \E s \in Sessions : FinallyCloseFlag(s)
  \/ \E s \in Sessions : FinallyClosePut(s)
  \/ \E s \in Sessions : FinallyWaitDone(s)
  \/ \E s \in Sessions : FinallyWaitTimeout(s)
  \/ \E s \in Sessions : SaveBegin(s)
  \/ \E s \in Sessions : SaveEnd(s)
  \/ \E s \in Sessions : Notify(s)
  \/ \E s \in Sessions : MsgPoll(s)
  \/ \E s \in Sessions : EngineRead(s)
  \/ \E s \in Sessions : Read_get(s)
  \/ \E s \in Sessions : Read_timeout(s)
  \/ \E s \in Sessions : EngineTranscript(s, <<"a", SP>>, FALSE, PairEvents)
  \/ \E s \in Sessions : EngineRaise(s)
  \/ \E s \in Sessions : EngineReturn(s)

PairSpec == Init /\ [][PairNext]_vars

\* AckSpec: one connection whose client sends up to AckAudio chunks of one
\* byte, enough for an acknowledgment, and whose engine delivers final
\* transcripts.
AckNext ==
  \/ \E s \in Solo : Connect(s, NoParam, 0, 0)
  \/ \E s \in Solo : ClientGone(s)
  \/ \E s \in Solo : Greet(s)
  \/ \E s \in Solo : GreetFail(s)
  \/ \E s \in Solo : Receive(s, 1, AckAudio)
  \/ \E s \in Solo : Disconnect(s)
  \/ \E s \in Solo : ReceiveError(s)
  \/ \E s \in Solo : FinallyCloseFlag(s)
  \/ \E s \in Solo : FinallyClosePut(s)
  \/ \E s \in Solo : FinallyWaitDone(s)
  \/ \E s \in Solo : FinallyWaitTimeout(s)
  \/ \E s \in Solo : SaveBegin(s)
  \/ \E s \in Solo : SaveEnd(s)
  \/ \E s \in Solo : SaveFail(s)
  \/ \E s \in Solo : Notify(s)
  \/ \E s \in Solo : MsgPoll(s)
  \/ \E s \in Solo : EngineRead(s)
  \/ \E s \in Solo : Read_get(s)
  \/ \E s \in Solo : Read_timeout(s)
  \/ \E s \in Solo : EngineTranscript(s, <<"a", SP>>, FALSE, AckEvents)
  \/ \E s \in Solo : EngineReturn(s)

AckSpec == Init /\ [][AckNext]_vars

\* KeySpec: two connections whose clients give a session id or none, at
\* clock values of the same or of different seconds; they send no audio, the
\* engines deliver nothing, and each connection ends by a receive error.
KeyNext ==
  \/ \E s \in Sessions : \E q \in QueryParams : \E t1, t2 \in 0..MaxTime :
       Connect(s, q, t1, t2)
  \/ \E s \in Sessions : Greet(s)
  \/ \E s \in Sessions : ReceiveError(s)
  \/ \E s \in Sessions : FinallyCloseFlag(s)
  \/ \E s \in Sessions : FinallyClosePut(s)
  \/ \E s \in Sessions : FinallyWaitDone(s)
  \/ \E s \in Sessions : FinallyWaitTimeout(s)
  \/ \E s \in Sessions : SaveBegin(s)
  \/ \E s \in Sessions : SaveEnd(s)
  \/ \E s \in Sessions : Notify(s)
  \/ \E s \in Sessions : EngineRead(s)
  \/ \E s \in Sessions : Read_get(s)
  \/ \E s \in Sessions : EngineReturn(s)

KeySpec == Init /\ [][KeyNext]_vars


\* ------------------------------------------------------------ claims
\* C1 (StreamSpec): the client bytes the reads have returned, in the order
\* returned, followed by the buffered remainder and then by the chunks still
\* queued, are exactly the bytes add_audio_data accepted, in push order: none
\* lost, repeated or reordered, whatever the sizes asked for; and silence is
\* only ever returned with no remainder buffered.
C1_ByteOrder ==
  \A s \in Sessions :
    /\ IsPrefix(got[s], accepted[s])
    /\ accepted[s] =
         got[s] \o stream[s].current_buffer \o FlatItems(stream[s].audio_queue)
    /\ ret[s].src = "timeout" => stream[s].current_buffer = <<>>

\* Two chunks, the second split by a read smaller than it, its remainder then
\* returned from the buffer, and everything pushed has been read.
C1_Witness ==
  /\ Len(session[Unit].audio_chunks) = 2
  /\ ret[Unit].src = "buffer"
  /\ Len(got[Unit]) = 3
  /\ got[Unit] = accepted[Unit]

\* C2 (StreamSpec): a read that returns once close() has set the closed flag
\* returns an empty result: no client bytes and no silence.
C2_EmptyAfterClose ==
  \A s \in Sessions : ret[s].afterClose => ret[s].bytes = EmptyBytes

\* C3 (StreamSpec): when a read has reported the end of the stream with an
\* empty result, every accepted byte has been returned by the reads.
C3_NothingDropped ==
  \A s \in Sessions :
    (ret[s].src # "none" /\ ret[s].bytes = EmptyBytes) => got[s] = accepted[s]

\* C4 (Spec): save_session is invoked at most once per connection, and a
\* connection whose handler has ended, by return or by exception, had it
\* invoked exactly once.
C4_FinalizedOnce ==
  \A s \in Sessions :
    /\ saveCalls[s] <= 1
    /\ hpc[s] \in {"end", "raised"} => saveCalls[s] = 1

\* C5 (Spec): once save_session has started, no step appends a transcript
\* entry to the session.
C5_NoAppendOnceSaving ==
  [][\A s \in Sessions :
       saveCalls[s] > 0 => session'[s].transcripts = session[s].transcripts]_vars

\* C6 (PairSpec): every frame a client was sent was produced by its own
\* connection: by its own websocket_proxy or published by its own worker.
C6_OwnFramesOnly ==
  \A s \in Sessions : \A i \in 1..Len(clientRecv[s]) : clientRecv[s][i].src = s

\* The frames of a client that came through the message queue.
Relayed(s) ==
  SelectSeq(clientRecv[s],
            LAMBDA f : f.kind \in {"partial", "final", "error", "started", "fatal"})

\* C7 (PairSpec): the relayed frames a client was sent are the first, second,
\* third, ... message its own worker published, in that order.
C7_RelayInOrder ==
  \A s \in Sessions :
    \A i \in 1..Len(Relayed(s)) : Relayed(s)[i].src = s /\ Relayed(s)[i].n = i

\* C8 (FairSpec): once the worker's blocking call has raised, the handler
\* leaves the receive loop.
C8_FailureEndsSession ==
  \A s \in Sessions : (worker[s] = "failed") ~> (hpc[s] # "recv")

\* The frames of a client that report a failed blocking call.
Fatal(s) == SelectSeq(clientRecv[s], LAMBDA f : f.kind = "fatal")

\* C9 (PairSpec): a client is sent at most one frame reporting a failed
\* blocking call, and only for the failure of its own worker.
C9_OneFatalOfItsOwn ==
  \A s \in Sessions :
    /\ Len(Fatal(s)) <= 1
    /\ Len(Fatal(s)) = 1 => Fatal(s)[1].src = s /\ worker[s] = "failed"

\* C10 (StreamSpec): a read that ends by the timeout with the stream open
\* returns 3200 zero bytes and no others, and is over.
C10_SilenceOnTimeout ==
  \A s \in Sessions :
    (ret[s].src = "timeout" /\ ~ret[s].afterClose) =>
      /\ ret[s].bytes = Bytes(<<>>, 3200)
      /\ rd[s].pc = "idle"

\* A timeout with the stream open, after a chunk was pushed and read.
C10_Witness ==
  /\ ret[Unit].src = "timeout"
  /\ ~ret[Unit].afterClose
  /\ ~stream[Unit].closed
  /\ got[Unit] # <<>>


\* The final entries of a transcript list, in the order they were appended.
Finals(entries) == SelectSeq(entries, LAMBDA e : ~e.is_partial)

\* C11 (Spec): when save_session returns, the audio written is the bytes the
\* client sent, first to last, and the text file holds one line per final
\* entry of the session, in the order of the entries, and none for a partial.
C11_PersistedAtFinalize ==
  [][\A s \in Sessions :
       (hpc[s] = "saving" /\ hpc'[s] = "notify") =>
         /\ saved'[s].wav = [i \in 1..Len(Flat(session[s].audio_chunks)) |-> i]
         /\ Len(saved'[s].txt) = Len(Finals(session[s].transcripts))
         /\ \A i \in 1..Len(saved'[s].txt) :
              saved'[s].txt[i] = Finals(session[s].transcripts)[i].text]_vars

\* save_session has returned for a session of two chunks, a partial entry and
\* a final one.
C11_Witness ==
  /\ saved[Unit].done
  /\ Len(session[Unit].audio_chunks) = 2
  /\ Len(saved[Unit].wav) = 2
  /\ Len(session[Unit].transcripts) = 2
  /\ Len(saved[Unit].txt) = 1

\* C12: the files of a session are keyed by its session id: two sessions
\* with different session ids never write under the same name, so that
\* finalizing one never overwrites the audio or the transcript of the other.
C12_KeyedBySessionId ==
  \A s, c \in Sessions :
    (/\ s # c
     /\ saved[s].name # NoName
     /\ saved[c].name # NoName
     /\ session[s].session_id # session[c].session_id)
      => saved[s].name # saved[c].name

C14_WorkerEndsAfterClose ==
  \A s \in Sessions : stream[s].closed ~> WorkerExited(s)

C14_Witness ==
  /\ stream[Unit].closed
  /\ ret[Unit].src = "closed"
  /\ worker[Unit] = "done"

\* C15: a session that has entered the finally block (draining) gets to
\* save_session also when the worker never exits, and save_session is then
\* called once, not twice.
C15_DrainingBounded ==
  \A s \in Sessions :
    /\ (hpc[s] = "stop") ~> (saveCalls[s] = 1)
    /\ [](saveCalls[s] <= 1)

C15_Witness ==
  /\ hpc[Unit] = "end"
  /\ saveCalls[Unit] = 1
  /\ worker[Unit] = "running"
  /\ ~eos[Unit]

\* C16: a transcript entry is appended to the session if and only if a
\* partial or final message is published, in the same step, with the same
\* text and with the tag of the entry's flag; an event whose text is blank
\* after strip() does neither, any other event does both; both are appended
\* at the end, so entries and messages are in the same order.
Tagged(m, s) == m.src = s /\ m.kind \in {"partial", "final"}
Published(s) ==
  /\ pubCount'[s] = pubCount[s] + 1
  /\ message_queue' # <<>>
  /\ Tagged(message_queue'[Len(message_queue')], s)
C16_EntryIffMessage ==
  [][\A s \in Sessions :
       LET old == session[s].transcripts
           new == session'[s].transcripts
       IN /\ (new # old) <=> Published(s)
          /\ (new # old) =>
               LET m == message_queue'[Len(message_queue')]
                   e == new[Len(new)]
               IN /\ new = Append(old, e)
                  /\ message_queue' = Append(message_queue, m)
                  /\ m.text = e.text
                  /\ m.kind = (IF e.is_partial THEN "partial" ELSE "final")
                  /\ strip(e.text) # <<>>
          /\ \A text \in Texts(s) : \A p \in BOOLEAN :
               EngineTranscript(s, text, p, MaxEvents) =>
                 ((strip(text) # <<>>) <=>
                    new = Append(old, [text |-> text, is_partial |-> p]))]_vars

C16_Witness ==
  /\ events = 2
  /\ pubCount[Unit] = 1
  /\ Len(session[Unit].transcripts) = 1
  /\ session[Unit].transcripts[1].is_partial

\* C17: every chunk received is appended to the recorder's chunk list and
\* enqueued to the AudioStream, the same chunk at the end of both; so the
\* recorded audio is the client's bytes in order, the stream was given the
\* same bytes, and the client bytes the engine has pulled are a prefix of
\* the recorded audio.
C17_ChunkOrderInBothSinks ==
  [][\A s \in Sessions :
       LET rec == Flat(session'[s].audio_chunks)
       IN /\ \A n \in 1..MaxChunkLen :
               Receive(s, n, MaxAudio) =>
                 /\ session'[s].audio_chunks =
                      Append(session[s].audio_chunks, NextChunk(s, n))
                 /\ stream'[s].audio_queue =
                      Append(stream[s].audio_queue, Item(NextChunk(s, n)))
          /\ rec = [i \in 1..Len(rec) |-> i]
          /\ accepted'[s] = rec
          /\ IsPrefix(got'[s], rec)]_vars

C17_Witness ==
  /\ Len(session[Unit].audio_chunks) = 2
  /\ Len(stream[Unit].audio_queue) = 1
  /\ got[Unit] = <<1>>

\* C18 (StreamSpec): a close() called on an AudioStream that an earlier
\* close() has closed changes nothing: neither of its two steps alters the
\* stream, so the flag stays set and no second sentinel is enqueued.
C18_CloseIdempotent ==
  [][/\ (UnitCloseFlag /\ drv.closes >= 1) => stream'[Unit] = stream[Unit]
     /\ (UnitClosePut /\ drv.closes >= 2) => stream'[Unit] = stream[Unit]]_vars

\* C19: a read(size) with size > 0 that has returned handed out at most size
\* bytes, client bytes and zero bytes of silence together.
C19_AtMostSize ==
  \A s \in Sessions :
    (rd[s].pc = "idle" /\ ret[s].src # "none" /\ rd[s].size > 0) =>
      Len(ret[s].bytes.data) + ret[s].bytes.zeros <= rd[s].size

\* C20: a client is sent SESSION_ENDED at most once, only when save_session
\* has returned, and as the last text frame it is sent: no relayed message
\* and no acknowledgment comes after it.
Ended(s) == SelectSeq(clientRecv[s], LAMBDA m : m.kind = "ended")
C20_EndedIsLast ==
  \A s \in Sessions :
    /\ Len(Ended(s)) <= 1
    /\ Len(Ended(s)) = 1 =>
         /\ clientRecv[s][Len(clientRecv[s])].kind = "ended"
         /\ saved[s].done
         /\ saveCalls[s] = 1

\* An acknowledgment, a relayed transcript and then SESSION_ENDED, received
\* by a client that is still connected.
C20_Witness ==
  /\ \E i \in DOMAIN clientRecv[Unit] : clientRecv[Unit][i].kind = "ack"
  /\ \E i \in DOMAIN clientRecv[Unit] : clientRecv[Unit][i].kind = "final"
  /\ Len(Ended(Unit)) = 1
  /\ conn[Unit] = "open"

====
